---------------------------- MODULE Spec2Model ----------------------------
(***************************************************************************)
(* Model of scripts/cdata_bridge.py: the CDataBridge class, its generic    *)
(* fetch path _fetch_with_config, the five kind-specific wrappers, the     *)
(* module-level singleton accessor get_bridge and fetch_data.              *)
(*                                                                         *)
(* Python dicts are functions with a finite domain of strings, lists are   *)
(* sequences, object references are positive naturals and None is 0.       *)
(* The cdata framework (get_registry, registry.create_source,              *)
(* source.fetch) and the clock are external: every outcome they can have   *)
(* is a nondeterministic input of the call.                                *)
(***************************************************************************)
EXTENDS Naturals, Sequences, FiniteSets, TLC

VARIABLES
    _bridge,            \* module global _bridge: None or a CDataBridge reference
    _registry,          \* _registry[b]: the field self._registry of bridge b
    created,            \* number of CDataBridge instances constructed so far
    getRegistryCalls,   \* getRegistryCalls[b]: get_registry() calls made for bridge b
    getRegistryRaised,  \* getRegistryRaised[b]: how many of them raised
    frame,              \* the single-threaded caller's last call and what it got
    pc,                 \* pc[t]: position of thread t inside get_bridge
    sawNone,            \* sawNone[t]: thread t found _bridge is None at line 242
    inst,               \* inst[t]: the instance thread t constructed at line 243
    ret                 \* ret[t]: what get_bridge returned to thread t

vars == <<_bridge, _registry, created, getRegistryCalls, getRegistryRaised,
          frame, pc, sawNone, inst, ret>>

seqVars == <<_bridge, _registry, created, getRegistryCalls, getRegistryRaised, frame>>
threadVars == <<pc, sawNone, inst, ret>>

---------------------------------------------------------------------------
(* Bounds of the model *)

MaxRecords == 2
MaxRegistryFailures == 1
NumThreads == 3

---------------------------------------------------------------------------
(* Python values *)

None == 0
NoExc == "no exception"
NaN == "NaN"
EmptyDict == [k \in {} |-> ""]

\* d[k] = v on a dict
DictSet(d, k, v) == [x \in DOMAIN d \cup {k} |-> IF x = k THEN v ELSE d[x]]

\* dict.copy(): a new dict with the same items
DictCopy(d) == [x \in DOMAIN d |-> d[x]]

---------------------------------------------------------------------------
(* Inputs the callers and the external framework can supply *)

SourceIds == {"us_indices", "fed_news"}
SourceTypes == {"yfinance", "rss", "fred", "bls", "fed_stress"}
Configs == {[period |-> "1y"], [period |-> "1y", interval |-> "1d"]}
FetchKwargs == {EmptyDict, [period |-> "5y"], [interval |-> "1wk", start |-> "2020"]}
PrimaryKeys == {<<"id">>, <<"symbol", "date">>}
RegistryRefs == {1, 2}
RegistryErrors == {"ImportError"}
CreateErrors == {"ValueError"}
FetchErrors == {"ConnectionError", "SchemaError"}
Microseconds == {0, 250000}
SymbolLists == {<<"^GSPC">>, <<"^GSPC", "^DJI">>}
Periods == {"1y", "5y"}
Intervals == {"1d"}
FeedLists == {<<[name |-> "fed", url |-> "https://www.federalreserve.gov/feeds/press_all.xml"]>>}
SeriesLists == {<<"GDP">>, <<"GDP", "UNRATE">>}
YearLists == {<<2024>>, <<2024, 2025>>}
ScenarioLists == {<<"baseline_domestic">>}

\* record.data of the records a source can return
RecordData ==
    { [value |-> "4.1"],
      [date |-> "2024-01-01", value |-> "4.2"],
      [value |-> "4.3", _source_id |-> "upstream", _fetched_at |-> "stale"] }

Records == {[data |-> d] : d \in RecordData}

RecordSeqs == UNION {[1..n -> Records] : n \in 0..MaxRecords}

\* what successive datetime.utcnow() calls can read: a clock that does not go back
ClockReads(n) ==
    {c \in [1..n -> Microseconds] : \A i \in 1..n : \A j \in i..n : c[i] <= c[j]}


---------------------------------------------------------------------------
(* datetime.utcnow().isoformat(): a naive datetime prints without a zone   *)
(* suffix, and without the fraction when its microsecond field is 0.       *)

Digits6(us) ==
    IF us < 10 THEN "00000" \o ToString(us)
    ELSE IF us < 100 THEN "0000" \o ToString(us)
    ELSE IF us < 1000 THEN "000" \o ToString(us)
    ELSE IF us < 10000 THEN "00" \o ToString(us)
    ELSE IF us < 100000 THEN "0" \o ToString(us)
    ELSE ToString(us)

isoformat(us) ==
    IF us = 0 THEN "2024-01-01T00:00:00"
    ELSE "2024-01-01T00:00:00" \o "." \o Digits6(us)

---------------------------------------------------------------------------
(* pandas.DataFrame *)

\* pd.DataFrame(): no rows, no columns
EmptyDataFrame == [columns |-> {}, rows |-> <<>>]

\* pd.DataFrame(list of dicts): one row per dict, in order; the columns are the
\* union of the dicts' keys; a key a dict lacks is NaN in its row
DataFrame(data_rows) ==
    LET cols == UNION {DOMAIN data_rows[i] : i \in 1..Len(data_rows)}
    IN  [columns |-> cols,
         rows |-> [i \in 1..Len(data_rows) |->
                     [c \in cols |-> IF c \in DOMAIN data_rows[i]
                                     THEN data_rows[i][c] ELSE NaN]]]

---------------------------------------------------------------------------
(* CDataBridge *)

\* CDataBridge.__init__: the value of self._registry after construction
InitRegistry == None

\* registry without the test of self._registry: get_registry() on every access
registryUncached(reg, answer) ==
    [log |-> <<[fn |-> "get_registry", exc |-> answer.exc, value |-> answer.value]>>,
     exc |-> answer.exc,
     value |-> IF answer.exc = NoExc THEN answer.value ELSE None,
     cached |-> IF answer.exc = NoExc THEN answer.value ELSE None]

\* The registry property: get_registry() is called only while nothing is cached.
\* reg is self._registry, answer is what get_registry() would do if called.
registry(reg, answer) ==
    IF reg = None
    THEN [log |-> <<[fn |-> "get_registry", exc |-> answer.exc, value |-> answer.value]>>,
          exc |-> answer.exc,
          value |-> IF answer.exc = NoExc THEN answer.value ELSE None,
          cached |-> IF answer.exc = NoExc THEN answer.value ELSE None]
    ELSE [log |-> <<>>, exc |-> NoExc, value |-> reg, cached |-> reg]

_create_source_config(source_id, source_type, config, primary_keys, incremental) ==
    [id |-> source_id,
     name |-> source_id,
     type |-> source_type,
     config |-> config,
     primary_keys |-> primary_keys,
     incremental |-> incremental]

\* self.registry.create_source(source_config)
create_source(reg, source_config, answer) ==
    [log |-> <<[fn |-> "create_source", registry |-> reg,
                source_config |-> source_config, exc |-> answer.exc]>>,
     exc |-> answer.exc]

\* MergeParams with the two operands exchanged: {**fetch_kwargs, **config}
MergeParamsConfigWins(config, fetch_kwargs) ==
    [k \in DOMAIN config \cup DOMAIN fetch_kwargs |->
        IF k \in DOMAIN config THEN config[k] ELSE fetch_kwargs[k]]

\* fetch_params = {**config, **fetch_kwargs}
MergeParams(config, fetch_kwargs) ==
    [k \in DOMAIN config \cup DOMAIN fetch_kwargs |->
        IF k \in DOMAIN fetch_kwargs THEN fetch_kwargs[k] ELSE config[k]]

\* the caller's config dict after the merge: a dict display builds a new dict
ConfigAfterMerge(config, fetch_kwargs) == config

\* fetch called a second time when the first call raised
fetchWithRetry(fetch_params, answer) ==
    [log |-> IF answer.exc = NoExc
             THEN <<[fn |-> "fetch", params |-> fetch_params,
                     exc |-> answer.exc, records |-> answer.records]>>
             ELSE <<[fn |-> "fetch", params |-> fetch_params,
                     exc |-> answer.exc, records |-> answer.records],
                    [fn |-> "fetch", params |-> fetch_params,
                     exc |-> answer.exc, records |-> answer.records]>>,
     exc |-> answer.exc,
     records |-> IF answer.exc = NoExc THEN answer.records ELSE <<>>]

\* result = source.fetch(**fetch_params)
fetch(fetch_params, answer) ==
    [log |-> <<[fn |-> "fetch", params |-> fetch_params,
                exc |-> answer.exc, records |-> answer.records]>>,
     exc |-> answer.exc,
     records |-> IF answer.exc = NoExc THEN answer.records ELSE <<>>]

\* Row without the assignment to row['_source_id']
RowWithoutSourceId(record, source_id, now) ==
    DictSet(DictCopy(record.data), "_fetched_at", isoformat(now))

\* Row starting from an empty dict instead of the copy of record.data
RowWithoutData(record, source_id, now) ==
    DictSet(DictSet(EmptyDict, "_source_id", source_id), "_fetched_at", isoformat(now))

\* one iteration of the loop: row = record.data.copy(); the two assignments
Row(record, source_id, now) ==
    DictSet(DictSet(DictCopy(record.data), "_source_id", source_id),
            "_fetched_at", isoformat(now))

\* record.data after an iteration that wrote to record.data itself
RecordAfterRowAliased(record, source_id, now) ==
    [data |-> DictSet(DictSet(record.data, "_source_id", source_id),
                      "_fetched_at", isoformat(now))]

\* record.data after the iteration: the assignments went to the copy
RecordAfterRow(record, source_id, now) == record

\* the datetime.utcnow() calls of the loop, one per record
UtcnowLog(records, clock) ==
    [i \in 1..Len(records) |-> [fn |-> "utcnow", value |-> clock[i]]]

\* ToDataFrame giving the empty result the two metadata columns
ToDataFrameKeepingSchema(records, source_id, clock) ==
    IF records = <<>>
    THEN [columns |-> {"_source_id", "_fetched_at"}, rows |-> <<>>]
    ELSE DataFrame([i \in 1..Len(records) |-> Row(records[i], source_id, clock[i])])

\* lines 102-114: the FetchResult's records to a DataFrame
ToDataFrame(records, source_id, clock) ==
    IF records = <<>>
    THEN EmptyDataFrame
    ELSE DataFrame([i \in 1..Len(records) |-> Row(records[i], source_id, clock[i])])

\* _fetch_with_config on a bridge whose self._registry is reg. env holds what the
\* external calls answer: env.get_registry, env.create_source, env.fetch, and
\* env.clock, the utcnow() readings of the loop.
_fetch_with_config(reg, source_id, source_type, config, primary_keys, incremental, fetch_kwargs, env) ==
    LET source_config == _create_source_config(source_id, source_type, config,
                                               primary_keys, incremental)
        r == registry(reg, env.get_registry)
        s == create_source(r.value, source_config, env.create_source)
        fetch_params == MergeParams(config, fetch_kwargs)
        f == fetch(fetch_params, env.fetch)
        failed(log, exc, cached, cfg) ==
            [log |-> log, exc |-> exc, returned |-> FALSE, table |-> EmptyDataFrame,
             cached |-> cached, config |-> cfg, fetched |-> FALSE, records |-> <<>>]
    IN  IF r.exc # NoExc THEN failed(r.log, r.exc, r.cached, config)
        ELSE IF s.exc # NoExc THEN failed(r.log \o s.log, s.exc, r.cached, config)
        ELSE IF f.exc # NoExc
             THEN failed(r.log \o s.log \o f.log, f.exc, r.cached,
                         ConfigAfterMerge(config, fetch_kwargs))
        ELSE [log |-> r.log \o s.log \o f.log \o UtcnowLog(f.records, env.clock),
              exc |-> NoExc,
              returned |-> TRUE,
              table |-> ToDataFrame(f.records, source_id, env.clock),
              cached |-> r.cached,
              config |-> ConfigAfterMerge(config, fetch_kwargs),
              fetched |-> TRUE,
              records |-> [i \in 1..Len(f.records) |->
                             RecordAfterRow(f.records[i], source_id, env.clock[i])]]

\* The kind-specific methods

fetch_yfinance_data(reg, source_id, symbols, period, interval, env) ==
    _fetch_with_config(reg, source_id, "yfinance",
                       [symbols |-> symbols, period |-> period, interval |-> interval],
                       <<"symbol", "date">>, TRUE, EmptyDict, env)

fetch_rss_data(reg, source_id, feeds, env) ==
    _fetch_with_config(reg, source_id, "rss", [feeds |-> feeds],
                       <<"id">>, FALSE, EmptyDict, env)

fetch_fred_data(reg, source_id, series, env) ==
    _fetch_with_config(reg, source_id, "fred", [series |-> series],
                       <<"series_id", "date">>, TRUE, EmptyDict, env)

\* fetch_bls_data keeping the kind tag of fetch_fred_data, which it was copied from
fetch_bls_data_as_fred(reg, source_id, series, env) ==
    _fetch_with_config(reg, source_id, "fred", [series |-> series],
                       <<"series_id", "date">>, TRUE, EmptyDict, env)

fetch_bls_data(reg, source_id, series, env) ==
    _fetch_with_config(reg, source_id, "bls", [series |-> series],
                       <<"series_id", "date">>, TRUE, EmptyDict, env)

fetch_fed_stress_data(reg, source_id, years, scenarios, env) ==
    _fetch_with_config(reg, source_id, "fed_stress",
                       [years |-> years, scenarios |-> scenarios],
                       <<"year", "table", "date">>, FALSE, EmptyDict, env)

---------------------------------------------------------------------------
(* Module level *)

\* get_bridge without the test of _bridge: a new instance on every call
get_bridge_always_new(bridge, n) ==
    [bridge |-> n + 1, created |-> n + 1, ret |-> n + 1]

\* get_bridge() run without interruption: bridge is the global _bridge, n the
\* number of instances constructed so far; a new instance gets reference n + 1
get_bridge(bridge, n) ==
    IF bridge = None
    THEN [bridge |-> n + 1, created |-> n + 1, ret |-> n + 1]
    ELSE [bridge |-> bridge, created |-> n, ret |-> bridge]

\* fetch_data: the generic path on the global bridge, without keyword parameters
fetch_data(reg, source_id, source_type, config, primary_keys, incremental, env) ==
    _fetch_with_config(reg, source_id, source_type, config, primary_keys,
                       incremental, EmptyDict, env)

---------------------------------------------------------------------------
(* What the external framework and the clock can answer to one call *)

GetRegistryAnswers(reg, raised) ==
    IF reg # None
    THEN {[exc |-> NoExc, value |-> reg]}
    ELSE {[exc |-> NoExc, value |-> r] : r \in RegistryRefs}
         \cup (IF raised < MaxRegistryFailures
               THEN {[exc |-> e, value |-> None] : e \in RegistryErrors}
               ELSE {})

CreateAnswers == {[exc |-> NoExc]} \cup {[exc |-> e] : e \in CreateErrors}

FetchAnswers ==
    {[exc |-> NoExc, records |-> rs] : rs \in RecordSeqs}
    \cup {[exc |-> e, records |-> <<>>] : e \in FetchErrors}

Envs(reg, raised) ==
    UNION { { [get_registry |-> g, create_source |-> c, fetch |-> f, clock |-> k] :
                k \in ClockReads(Len(f.records)) } :
            g \in GetRegistryAnswers(reg, raised), c \in CreateAnswers, f \in FetchAnswers }

---------------------------------------------------------------------------
(* The state machine *)

Threads == 1..NumThreads

IdleFrame == [op |-> "idle"]

Init ==
    /\ _bridge = None
    /\ _registry = <<>>
    /\ created = 0
    /\ getRegistryCalls = <<>>
    /\ getRegistryRaised = <<>>
    /\ frame = IdleFrame
    /\ pc = [t \in Threads |-> "start"]
    /\ sawNone = [t \in Threads |-> FALSE]
    /\ inst = [t \in Threads |-> None]
    /\ ret = [t \in Threads |-> None]

IsGetRegistry(e) == e.fn = "get_registry"
IsGetRegistryRaise(e) == e.fn = "get_registry" /\ e.exc # NoExc

\* the get_registry() calls a finished call made, and those of them that raised
CountGetRegistry(log) == Len(SelectSeq(log, IsGetRegistry))
CountGetRegistryRaise(log) == Len(SelectSeq(log, IsGetRegistryRaise))

\* the instance fields after n instances exist: a new one starts with __init__'s value
Fields(f, n, init) == IF n > Len(f) THEN Append(f, init) ELSE f

\* what a finished call on bridge b leaves behind
Finish(op, args, g, res) ==
    LET b == g.ret
    IN  /\ _bridge' = g.bridge
        /\ created' = g.created
        /\ _registry' = [Fields(_registry, g.created, InitRegistry) EXCEPT ![b] = res.cached]
        /\ getRegistryCalls' =
               [Fields(getRegistryCalls, g.created, 0) EXCEPT
                   ![b] = @ + CountGetRegistry(res.log)]
        /\ getRegistryRaised' =
               [Fields(getRegistryRaised, g.created, 0) EXCEPT
                   ![b] = @ + CountGetRegistryRaise(res.log)]
        /\ frame' = [op |-> op, args |-> args, bridge |-> b, res |-> res]
        /\ UNCHANGED threadVars

\* the bridge the caller already holds: get_bridge() returned it earlier
Held == [bridge |-> _bridge, created |-> created, ret |-> _bridge]

\* bridge = get_bridge()
GetBridge ==
    /\ frame.op = "idle"
    /\ LET g == get_bridge(_bridge, created)
       IN  /\ _bridge' = g.bridge
           /\ created' = g.created
           /\ _registry' = Fields(_registry, g.created, InitRegistry)
           /\ getRegistryCalls' = Fields(getRegistryCalls, g.created, 0)
           /\ getRegistryRaised' = Fields(getRegistryRaised, g.created, 0)
           /\ frame' = [op |-> "get_bridge", bridge |-> g.ret]
    /\ UNCHANGED threadVars

\* fetch_data(source_id, source_type, config, primary_keys, incremental)
FetchData ==
    /\ frame.op = "idle"
    /\ \E source_id \in SourceIds, source_type \in SourceTypes, config \in Configs,
          primary_keys \in PrimaryKeys, incremental \in BOOLEAN :
         LET g == get_bridge(_bridge, created)
             reg == Fields(_registry, g.created, InitRegistry)[g.ret]
             raised == Fields(getRegistryRaised, g.created, 0)[g.ret]
         IN  \E env \in Envs(reg, raised) :
               Finish("fetch_data",
                      [source_id |-> source_id, source_type |-> source_type,
                       config |-> config, primary_keys |-> primary_keys,
                       incremental |-> incremental, fetch_kwargs |-> EmptyDict],
                      g,
                      fetch_data(reg, source_id, source_type, config, primary_keys,
                                 incremental, env))

\* bridge._fetch_with_config(source_id, source_type, config, primary_keys,
\*                           incremental, **fetch_kwargs) on the held bridge
FetchWithConfig ==
    /\ frame.op = "idle"
    /\ _bridge # None
    /\ \E source_id \in SourceIds, source_type \in SourceTypes, config \in Configs,
          primary_keys \in PrimaryKeys, incremental \in BOOLEAN,
          fetch_kwargs \in FetchKwargs :
         \E env \in Envs(_registry[_bridge], getRegistryRaised[_bridge]) :
           Finish("_fetch_with_config",
                  [source_id |-> source_id, source_type |-> source_type,
                   config |-> config, primary_keys |-> primary_keys,
                   incremental |-> incremental, fetch_kwargs |-> fetch_kwargs],
                  Held,
                  _fetch_with_config(_registry[_bridge], source_id, source_type, config,
                                     primary_keys, incremental, fetch_kwargs, env))

\* bridge.fetch_yfinance_data(source_id, symbols, period, interval)
FetchYfinance ==
    /\ frame.op = "idle"
    /\ _bridge # None
    /\ \E source_id \in SourceIds, symbols \in SymbolLists, period \in Periods,
          interval \in Intervals :
         \E env \in Envs(_registry[_bridge], getRegistryRaised[_bridge]) :
           Finish("fetch_yfinance_data",
                  [source_id |-> source_id, symbols |-> symbols, period |-> period,
                   interval |-> interval],
                  Held,
                  fetch_yfinance_data(_registry[_bridge], source_id, symbols, period,
                                      interval, env))

\* bridge.fetch_rss_data(source_id, feeds)
FetchRss ==
    /\ frame.op = "idle"
    /\ _bridge # None
    /\ \E source_id \in SourceIds, feeds \in FeedLists :
         \E env \in Envs(_registry[_bridge], getRegistryRaised[_bridge]) :
           Finish("fetch_rss_data", [source_id |-> source_id, feeds |-> feeds], Held,
                  fetch_rss_data(_registry[_bridge], source_id, feeds, env))

\* bridge.fetch_fred_data(source_id, series)
FetchFred ==
    /\ frame.op = "idle"
    /\ _bridge # None
    /\ \E source_id \in SourceIds, series \in SeriesLists :
         \E env \in Envs(_registry[_bridge], getRegistryRaised[_bridge]) :
           Finish("fetch_fred_data", [source_id |-> source_id, series |-> series], Held,
                  fetch_fred_data(_registry[_bridge], source_id, series, env))

\* bridge.fetch_bls_data(source_id, series)
FetchBls ==
    /\ frame.op = "idle"
    /\ _bridge # None
    /\ \E source_id \in SourceIds, series \in SeriesLists :
         \E env \in Envs(_registry[_bridge], getRegistryRaised[_bridge]) :
           Finish("fetch_bls_data", [source_id |-> source_id, series |-> series], Held,
                  fetch_bls_data(_registry[_bridge], source_id, series, env))

\* bridge.fetch_fed_stress_data(source_id, years, scenarios)
FetchFedStress ==
    /\ frame.op = "idle"
    /\ _bridge # None
    /\ \E source_id \in SourceIds, years \in YearLists, scenarios \in ScenarioLists :
         \E env \in Envs(_registry[_bridge], getRegistryRaised[_bridge]) :
           Finish("fetch_fed_stress_data",
                  [source_id |-> source_id, years |-> years, scenarios |-> scenarios],
                  Held,
                  fetch_fed_stress_data(_registry[_bridge], source_id, years, scenarios,
                                        env))

\* the caller is done with what the call gave it and goes on to its next call
Discard ==
    /\ frame.op # "idle"
    /\ frame' = IdleFrame
    /\ UNCHANGED <<_bridge, _registry, created, getRegistryCalls, getRegistryRaised>>
    /\ UNCHANGED threadVars

Next ==
    \/ GetBridge
    \/ FetchData
    \/ FetchWithConfig
    \/ FetchYfinance
    \/ FetchRss
    \/ FetchFred
    \/ FetchBls
    \/ FetchFedStress
    \/ Discard

\* one single-threaded process using the module
Spec == Init /\ [][Next]_vars

---------------------------------------------------------------------------
(* Threads calling get_bridge() concurrently: the interpreter may switch   *)
(* threads between the test of line 242, the constructor call and the      *)
(* store of line 243, and the load of line 244.                            *)

\* if _bridge is None
BridgeIsNone(bridge) == bridge = None

\* the constructor call guarded by a second test of _bridge
ConstructIfStillNone(bridge, n) == IF bridge = None THEN n + 1 ELSE bridge

\* CDataBridge(): the reference of the new instance, n instances existing;
\* bridge is the global at that moment, which the constructor call does not read
Construct(bridge, n) == n + 1

\* _bridge = <the new instance>
StoreBridge(bridge, new) == new

Check(t) ==
    /\ pc[t] = "start"
    /\ sawNone' = [sawNone EXCEPT ![t] = BridgeIsNone(_bridge)]
    /\ pc' = [pc EXCEPT ![t] = IF BridgeIsNone(_bridge) THEN "construct" ELSE "load"]
    /\ UNCHANGED <<inst, ret>>
    /\ UNCHANGED seqVars

ConstructStep(t) ==
    /\ pc[t] = "construct"
    /\ LET new == Construct(_bridge, created)
       IN  /\ inst' = [inst EXCEPT ![t] = new]
           /\ created' = IF new > created THEN new ELSE created
           /\ _registry' = Fields(_registry, new, InitRegistry)
           /\ getRegistryCalls' = Fields(getRegistryCalls, new, 0)
           /\ getRegistryRaised' = Fields(getRegistryRaised, new, 0)
    /\ pc' = [pc EXCEPT ![t] = "store"]
    /\ UNCHANGED <<_bridge, frame, sawNone, ret>>

Store(t) ==
    /\ pc[t] = "store"
    /\ _bridge' = StoreBridge(_bridge, inst[t])
    /\ pc' = [pc EXCEPT ![t] = "load"]
    /\ UNCHANGED <<_registry, created, getRegistryCalls, getRegistryRaised, frame>>
    /\ UNCHANGED <<sawNone, inst, ret>>

\* return _bridge
Return(t) ==
    /\ pc[t] = "load"
    /\ ret' = [ret EXCEPT ![t] = _bridge]
    /\ pc' = [pc EXCEPT ![t] = "done"]
    /\ UNCHANGED <<sawNone, inst>>
    /\ UNCHANGED seqVars

NextThreads == \E t \in Threads : Check(t) \/ ConstructStep(t) \/ Store(t) \/ Return(t)

SpecThreads == Init /\ [][NextThreads]_vars

---------------------------------------------------------------------------
(* Reading a finished call *)

WrapperOps == {"fetch_yfinance_data", "fetch_rss_data", "fetch_fred_data",
               "fetch_bls_data", "fetch_fed_stress_data"}
GenericOps == {"fetch_data", "_fetch_with_config"}
FetchOps == GenericOps \cup WrapperOps
MetaColumns == {"_source_id", "_fetched_at"}

IsFetchFrame == frame.op \in FetchOps
IsGenericFrame == frame.op \in GenericOps

\* the external calls of one kind the finished call made
Entries(fn) == SelectSeq(frame.res.log, LAMBDA e : e.fn = fn)

\* the call got a records result from source.fetch
GotRecords == IsFetchFrame /\ Len(Entries("fetch")) = 1 /\ Entries("fetch")[1].exc = NoExc

\* the records source.fetch returned, as returned
FetchedRecords == Entries("fetch")[1].records

\* the union of the fetched records' fields
NativeFields == UNION {DOMAIN FetchedRecords[i].data : i \in 1..Len(FetchedRecords)}

\* isoformat's two shapes: YYYY-MM-DDTHH:MM:SS and YYYY-MM-DDTHH:MM:SS.ffffff
IsIsoTimestamp(s) == Len(s) = 19 \/ Len(s) = 26

---------------------------------------------------------------------------
(* The claims *)

\* C1: when source.fetch returns a result whose records are empty, the call
\* returns (raises nothing) a table with zero rows and zero columns, whatever
\* the source kind, identifier, parameters, primary keys and incremental flag.
C1_EmptyRecordsEmptyTable ==
    (GotRecords /\ FetchedRecords = <<>>) =>
        /\ frame.res.returned
        /\ frame.res.exc = NoExc
        /\ frame.res.table.columns = {}
        /\ Len(frame.res.table.rows) = 0

C1_Witness ==
    /\ frame.op = "_fetch_with_config"
    /\ GotRecords
    /\ FetchedRecords = <<>>
    /\ frame.args.source_type = "fed_stress"
    /\ frame.args.incremental
    /\ frame.res.returned

\* C2 as stated: for a non-empty records result the table has exactly two more
\* columns than the union of the records' fields, also when a record already
\* has a field named _source_id or _fetched_at, and the two columns hold the
\* source identifier and a well-formed timestamp in every row.
C2_ExactlyTwoMoreColumns ==
    (GotRecords /\ FetchedRecords # <<>>) =>
        /\ Cardinality(frame.res.table.columns) = Cardinality(NativeFields) + 2
        /\ \A i \in 1..Len(frame.res.table.rows) :
             /\ frame.res.table.rows[i]["_source_id"] = frame.args.source_id
             /\ IsIsoTimestamp(frame.res.table.rows[i]["_fetched_at"])

\* C2 amended: the columns are the union of the records' fields together with
\* _source_id and _fetched_at, which is exactly two more when no record has a
\* field of either name; in every row the two columns hold the source
\* identifier and a well-formed timestamp.
C2_MetadataColumns ==
    (GotRecords /\ FetchedRecords # <<>>) =>
        /\ frame.res.returned
        /\ frame.res.table.columns = NativeFields \cup MetaColumns
        /\ (NativeFields \cap MetaColumns = {} =>
              Cardinality(frame.res.table.columns) = Cardinality(NativeFields) + 2)
        /\ \A i \in 1..Len(frame.res.table.rows) :
             /\ frame.res.table.rows[i]["_source_id"] = frame.args.source_id
             /\ IsIsoTimestamp(frame.res.table.rows[i]["_fetched_at"])

C2_Witness ==
    /\ GotRecords
    /\ Len(FetchedRecords) = 2
    /\ NativeFields = {"date", "value"}
    /\ Cardinality(frame.res.table.columns) = 4
    /\ frame.res.table.rows[1]["_fetched_at"] # frame.res.table.rows[2]["_fetched_at"]

\* C3: the parameters passed to source.fetch are the union of config and the
\* keyword parameters; a key in both is passed with the keyword parameter's
\* value, a key in one of them with that one's value.
C3_KwargsOverrideConfig ==
    (IsGenericFrame /\ Len(Entries("fetch")) > 0) =>
        LET params == Entries("fetch")[1].params
            config == frame.args.config
            kwargs == frame.args.fetch_kwargs
        IN  /\ DOMAIN params = DOMAIN config \cup DOMAIN kwargs
            /\ \A k \in DOMAIN kwargs : params[k] = kwargs[k]
            /\ \A k \in DOMAIN config \ DOMAIN kwargs : params[k] = config[k]

C3_Witness ==
    /\ frame.op = "_fetch_with_config"
    /\ Len(Entries("fetch")) = 1
    /\ frame.args.config = [period |-> "1y", interval |-> "1d"]
    /\ frame.args.fetch_kwargs = [period |-> "5y"]
    /\ Entries("fetch")[1].params = [period |-> "5y", interval |-> "1d"]

\* What the external framework answered to the finished call, read off its log
AnswersOfLog ==
    [get_registry |->
        IF Len(Entries("get_registry")) > 0
        THEN [exc |-> Entries("get_registry")[1].exc,
              value |-> Entries("get_registry")[1].value]
        ELSE [exc |-> NoExc, value |-> frame.res.cached],
     create_source |->
        IF Len(Entries("create_source")) > 0
        THEN [exc |-> Entries("create_source")[1].exc]
        ELSE [exc |-> NoExc],
     fetch |->
        IF Len(Entries("fetch")) > 0
        THEN [exc |-> Entries("fetch")[1].exc, records |-> Entries("fetch")[1].records]
        ELSE [exc |-> NoExc, records |-> <<>>],
     clock |-> [i \in 1..Len(Entries("utcnow")) |-> Entries("utcnow")[i].value]]

\* self._registry when the finished call began
RegistryBefore == IF Len(Entries("get_registry")) > 0 THEN None ELSE frame.res.cached

\* the generic path on the finished call's bridge and external answers
Generic(source_type, config, primary_keys, incremental) ==
    _fetch_with_config(RegistryBefore, frame.args.source_id, source_type, config,
                       primary_keys, incremental, EmptyDict, AnswersOfLog)

\* C4: each kind-specific method gives what the generic path gives for the same
\* source identifier, the method's kind tag and the parameter mapping built
\* from its arguments (with the method's primary keys and incremental flag):
\* the same table or failure and the same registry and fetch calls.
C4_WrappersForward ==
    /\ frame.op = "fetch_yfinance_data" =>
         frame.res = Generic("yfinance",
                             [symbols |-> frame.args.symbols, period |-> frame.args.period,
                              interval |-> frame.args.interval],
                             <<"symbol", "date">>, TRUE)
    /\ frame.op = "fetch_rss_data" =>
         frame.res = Generic("rss", [feeds |-> frame.args.feeds], <<"id">>, FALSE)
    /\ frame.op = "fetch_fred_data" =>
         frame.res = Generic("fred", [series |-> frame.args.series],
                             <<"series_id", "date">>, TRUE)
    /\ frame.op = "fetch_bls_data" =>
         frame.res = Generic("bls", [series |-> frame.args.series],
                             <<"series_id", "date">>, TRUE)
    /\ frame.op = "fetch_fed_stress_data" =>
         frame.res = Generic("fed_stress",
                             [years |-> frame.args.years,
                              scenarios |-> frame.args.scenarios],
                             <<"year", "table", "date">>, FALSE)

C4_Witness ==
    /\ frame.op = "fetch_bls_data"
    /\ frame.res.returned
    /\ Len(frame.res.table.rows) = 2
    /\ frame.args.series = <<"GDP", "UNRATE">>
    /\ Entries("create_source")[1].source_config.type = "bls"
    /\ Entries("fetch")[1].params = [series |-> <<"GDP", "UNRATE">>]

\* C5: in one single-threaded process every get_bridge() call, also the one
\* inside fetch_data and also after a fetch that failed, returns the same
\* instance: the first call constructs it, no other instance is constructed and
\* the global _bridge is never replaced or reset.
C5_SingletonSameInstance ==
    /\ created <= 1
    /\ created = 1 => _bridge = 1
    /\ frame.op \in {"get_bridge", "fetch_data"} => (frame.bridge = 1 /\ frame.bridge = _bridge)

C5_Witness ==
    /\ frame.op = "get_bridge"
    /\ frame.bridge = _bridge
    /\ getRegistryRaised[_bridge] > 0

\* C6: a failure of create_source or of fetch reaches the caller as that same
\* failure and no table is returned; create_source and fetch are called at
\* most once per call, and fetch not at all when create_source failed.
C6_FailuresPropagate ==
    IsFetchFrame =>
        /\ Len(Entries("create_source")) <= 1
        /\ Len(Entries("fetch")) <= 1
        /\ \A i \in 1..Len(Entries("create_source")) :
             Entries("create_source")[i].exc # NoExc =>
               /\ ~frame.res.returned
               /\ frame.res.exc = Entries("create_source")[i].exc
               /\ Len(Entries("fetch")) = 0
               /\ Len(frame.res.table.rows) = 0
        /\ \A i \in 1..Len(Entries("fetch")) :
             Entries("fetch")[i].exc # NoExc =>
               /\ ~frame.res.returned
               /\ frame.res.exc = Entries("fetch")[i].exc
               /\ Len(frame.res.table.rows) = 0
               /\ Len(Entries("utcnow")) = 0

C6_Witness ==
    /\ frame.op = "_fetch_with_config"
    /\ Len(Entries("create_source")) = 1
    /\ Len(Entries("fetch")) = 1
    /\ Entries("fetch")[1].exc = "SchemaError"
    /\ frame.res.exc = "SchemaError"
    /\ ~frame.res.returned

\* C7: get_bridge is not thread-safe. Every thread that found _bridge to be
\* None at line 242 constructs an instance of its own, distinct from every
\* other thread's, so two threads that both pass the test before either stores
\* create two instances; the witness is the interleaving in which the two
\* callers then get different instances.
C7_EachThreadThatSawNoneConstructs ==
    \A t \in Threads :
        (sawNone[t] /\ pc[t] \in {"store", "load", "done"}) =>
            /\ inst[t] # None
            /\ \A u \in Threads \ {t} : inst[u] # inst[t]

C7_Witness ==
    \E t \in Threads : \E u \in Threads \ {t} :
        /\ pc[t] = "done" /\ pc[u] = "done"
        /\ sawNone[t] /\ sawNone[u]
        /\ ret[t] # None /\ ret[u] # None
        /\ ret[t] # ret[u]
        /\ created >= 2

C9_RowsCarryEveryField ==
    (GotRecords /\ FetchedRecords # <<>>) =>
        /\ Len(frame.res.table.rows) = Len(FetchedRecords)
        /\ \A i \in 1..Len(FetchedRecords) :
             \A f \in DOMAIN FetchedRecords[i].data :
                /\ f \in DOMAIN frame.res.table.rows[i]
                /\ frame.res.table.rows[i][f] = FetchedRecords[i].data[f]

\* C9 amended: one row per record, in the records' order, and each row has
\* every field of its record other than _source_id and _fetched_at with the
\* record's value; a field of those two names is overwritten by the metadata.
C9_RowsCarryNativeFields ==
    (GotRecords /\ FetchedRecords # <<>>) =>
        /\ Len(frame.res.table.rows) = Len(FetchedRecords)
        /\ \A i \in 1..Len(FetchedRecords) :
             \A f \in DOMAIN FetchedRecords[i].data \ MetaColumns :
                /\ f \in DOMAIN frame.res.table.rows[i]
                /\ frame.res.table.rows[i][f] = FetchedRecords[i].data[f]

C9_Witness ==
    /\ GotRecords
    /\ Len(FetchedRecords) = 2
    /\ FetchedRecords[1].data = [date |-> "2024-01-01", value |-> "4.2"]
    /\ FetchedRecords[2].data = [value |-> "4.1"]
    /\ frame.res.table.rows[1]["value"] = "4.2"
    /\ frame.res.table.rows[2]["value"] = "4.1"
    /\ frame.res.table.rows[2]["date"] = NaN

=============================================================================
